---------------------------- MODULE Spec2Model ----------------------------
(***************************************************************************)
(* Model of streamlit_app.py: the credential gate, the chat tab (session   *)
(* transcript, cached Copilot engine, ask call), the data fetchers with    *)
(* their process-wide memoisation, and the three visualisation views.      *)
(*                                                                         *)
(* Python / JSON values are tagged records:                                *)
(*   [t |-> "null"]  [t |-> "num", n |-> 3]  [t |-> "str", s |-> "2020"]   *)
(*   [t |-> "arr", a |-> <<...>>]  [t |-> "obj", o |-> [key |-> value]]    *)
(* A call's outcome is [kind |-> "return" | "raise", ...].                 *)
(***************************************************************************)
EXTENDS Integers, Sequences, FiniteSets, TLC

(***************************************************************************)
(* JSON values as json.loads / response.json() hands them to the script.   *)
(***************************************************************************)
JNull == [t |-> "null"]

JNum(n) == [t |-> "num", n |-> n]

JStr(s) == [t |-> "str", s |-> s]

JArr(a) == [t |-> "arr", a |-> a]

JObj(o) == [t |-> "obj", o |-> o]

\* The transport itself can fail: requests.get raises, or the body is not JSON.
ConnError == [t |-> "connerr"]

NotJson == [t |-> "notjson"]

\* Length of the (few) Python strings the model uses, for len() and indexing.
StrLen(s) ==
    CASE s = "" -> 0
      [] s \in {"o", "k", "r"} -> 1
      [] s \in {"ok", "no"} -> 2
      [] s \in {"EUR", "USD", "GBP", "JPY", "AUD", "CAD", "CHF", "CNY", "DEU", "FRA"} -> 3
      [] s \in {"2019", "2020", "2021", "Zzzz"} -> 4
      [] OTHER -> 7

\* s[1] for the two-character strings.
CharAt2(s) == IF s = "ok" THEN "k" ELSE "o"

Raise(exc, msgs, req) == [kind |-> "raise", exc |-> exc, value |-> <<>>, msgs |-> msgs, req |-> req]

Return(value, msgs, req) == [kind |-> "return", exc |-> "", value |-> value, msgs |-> msgs, req |-> req]

RECURSIVE SetToSeq(_)
SetToSeq(S) ==
    IF S = {} THEN <<>>
    ELSE LET x == CHOOSE y \in S : TRUE IN <<x>> \o SetToSeq(S \ {x})

RECURSIVE SelectSeqBy(_, _)
\* The subsequence of q at the indices in keep (pandas boolean row selection).
SelectSeqBy(q, keep) ==
    IF q = <<>> THEN <<>>
    ELSE LET n == Len(q)
             rest == SelectSeqBy(SubSeq(q, 1, n - 1), keep)
         IN IF n \in keep THEN Append(rest, q[n]) ELSE rest

(***************************************************************************)
(* Indicator catalog and country resolver (lines 12-27).                   *)
(***************************************************************************)
get_indicator_code(variable) ==
    CASE variable = "GDP" -> "NY.GDP.MKTP.CD"
      [] variable = "Inflation" -> "FP.CPI.TOTL.ZG"
      [] variable = "Unemployment Rate" -> "SL.UEM.TOTL.ZS"
      [] variable = "Population" -> "SP.POP.TOTL"
      [] variable = "GDP per Capita" -> "NY.GDP.PCAP.CD"
      [] OTHER -> ""

\* pycountry.countries.search_fuzzy: the matches for a name, best first.  The
\* library is not part of the repository; fz is its behaviour on a name it
\* does not know: "empty" (an empty list) or "LookupError" (it raises).
search_fuzzy(country, fz) ==
    IF country.t # "str" THEN Raise("AttributeError", 0, <<>>)
    ELSE CASE country.s = "Germany" -> Return(<<"DEU">>, 0, <<>>)
           [] country.s = "France" -> Return(<<"FRA">>, 0, <<>>)
           [] OTHER -> IF fz = "empty" THEN Return(<<>>, 0, <<>>)
                       ELSE Raise("LookupError", 0, <<>>)

\* Returns the alpha_3 of the first match, or None ("" stands for None: both
\* are falsy at the only use, line 33).
get_country_code(country, fz) ==
    LET country_data == search_fuzzy(country, fz)
    IN IF country_data.kind = "raise" THEN country_data
       ELSE IF country_data.value # <<>> THEN Return(country_data.value[1], 0, <<>>)
       ELSE Return("", 0, <<>>)

(***************************************************************************)
(* Python's len(data) and data[1] on a decoded JSON value.                 *)
(***************************************************************************)
PyLen(data) ==
    CASE data.t = "arr" -> Return(Len(data.a), 0, <<>>)
      [] data.t = "obj" -> Return(Cardinality(DOMAIN data.o), 0, <<>>)
      [] data.t = "str" -> Return(StrLen(data.s), 0, <<>>)
      [] OTHER -> Raise("TypeError", 0, <<>>)

\* data[1], evaluated only after len(data) == 2.
PyIndex1(data) ==
    CASE data.t = "arr" -> Return(data.a[2], 0, <<>>)
      [] data.t = "str" -> Return(JStr(CharAt2(data.s)), 0, <<>>)
      [] OTHER -> Raise("KeyError", 0, <<>>)

(***************************************************************************)
(* pandas: DataFrame construction, to_datetime, to_numeric, dropna, sort.  *)
(***************************************************************************)
NA == [ok |-> FALSE, v |-> 0]

Cell(v) == [ok |-> TRUE, v |-> v]

\* pd.DataFrame(x): the frame's columns and records, or the exception.
\* A list of dicts gives the union of the keys as columns; None or an empty
\* list gives a frame without columns; a scalar or a dict of scalars raises.
DataFrameOf(x) ==
    CASE x.t = "arr" ->
           IF \A i \in 1..Len(x.a) : x.a[i].t = "obj"
           THEN Return([cols |-> UNION {DOMAIN x.a[i].o : i \in 1..Len(x.a)},
                        recs |-> [i \in 1..Len(x.a) |-> x.a[i].o]], 0, <<>>)
           ELSE IF \A i \in 1..Len(x.a) : x.a[i].t # "obj"
           THEN Return([cols |-> {"0"}, recs |-> [i \in 1..Len(x.a) |-> [c0 |-> x.a[i]]]], 0, <<>>)
           ELSE Raise("AttributeError", 0, <<>>)
      [] x.t = "null" -> Return([cols |-> {}, recs |-> <<>>], 0, <<>>)
      [] OTHER -> Raise("ValueError", 0, <<>>)

\* A record's field as pandas stores it: a missing key and a JSON null are NaN.
Field(rec, col) ==
    IF col \in DOMAIN rec /\ rec[col].t # "null" THEN Cell(rec[col]) ELSE NA

\* Timestamp of a date string, as yyyymmdd; 0 when dateutil cannot parse it.
ParseDate(s) ==
    CASE s = "2019" -> 20190101
      [] s = "2020" -> 20200101
      [] s = "2021" -> 20210101
      [] OTHER -> 0

\* pd.to_datetime on one cell (errors='raise'): NaN -> NaT, an integer is
\* nanoseconds since the epoch, a string is parsed.  bad marks a raise.
ToDatetime(c) ==
    IF ~c.ok THEN [ok |-> FALSE, v |-> 0, bad |-> FALSE]
    ELSE CASE c.v.t = "str" -> [ok |-> TRUE, v |-> ParseDate(c.v.s), bad |-> ParseDate(c.v.s) = 0]
           [] c.v.t = "num" -> [ok |-> TRUE, v |-> 19700101, bad |-> FALSE]
           [] OTHER -> [ok |-> TRUE, v |-> 0, bad |-> TRUE]

\* Value of a numeric string; -1 stands for "not a number".
ParseNum(s) ==
    CASE s = "10" -> 10
      [] s = "20" -> 20
      [] OTHER -> -1

\* pd.to_numeric(errors='coerce') on one cell.
ToNumeric(c) ==
    IF ~c.ok THEN NA
    ELSE CASE c.v.t = "num" -> Cell(c.v.n)
           [] c.v.t = "str" -> IF ParseNum(c.v.s) >= 0 THEN Cell(ParseNum(c.v.s)) ELSE NA
           [] OTHER -> NA

RECURSIVE InsertByDate(_, _)
InsertByDate(sorted, row) ==
    IF sorted = <<>> THEN <<row>>
    ELSE IF row.Date < sorted[1].Date THEN <<row>> \o sorted
    ELSE <<sorted[1]>> \o InsertByDate(Tail(sorted), row)

RECURSIVE SortValuesByDate(_)
\* df.sort_values('Date'): ascending; rows with equal dates keep their order.
SortValuesByDate(rows) ==
    IF rows = <<>> THEN <<>>
    ELSE InsertByDate(SortValuesByDate(SubSeq(rows, 1, Len(rows) - 1)), rows[Len(rows)])

(***************************************************************************)
(* The network: one GET, then response.json().                             *)
(***************************************************************************)
PerPageSeries == 1000

PerPageAll == 300

\* requests.get(url, params).json(): the decoded body, or the exception of
\* a failed connection or of a body that is not JSON.
HttpGetJson(req, response) ==
    CASE response.t = "connerr" -> Raise("ConnectionError", 0, <<req>>)
      [] response.t = "notjson" -> Raise("JSONDecodeError", 0, <<req>>)
      [] OTHER -> Return(response, 0, <<req>>)

(***************************************************************************)
(* fetch_wb_data (lines 30-58), without its cache.                         *)
(***************************************************************************)
\* Lines 48-55: frame, projection, conversions, dropna, sort.
SeriesFrame(records, req) ==
    LET df == DataFrameOf(records)
    IN IF df.kind = "raise" THEN Raise(df.exc, 0, req)
       ELSE IF ~({"date", "value"} \subseteq df.value.cols) THEN Raise("KeyError", 0, req)
       ELSE LET recs == df.value.recs
                n == Len(recs)
                dates == [i \in 1..n |-> ToDatetime(Field(recs[i], "date"))]
                vals == [i \in 1..n |-> ToNumeric(Field(recs[i], "value"))]
                rows == [i \in 1..n |-> [Date |-> dates[i].v, Value |-> vals[i].v]]
                keep == {i \in 1..n : dates[i].ok /\ vals[i].ok}
            IN IF \E i \in 1..n : dates[i].bad THEN Raise("ValueError", 0, req)
               ELSE Return(SortValuesByDate(SelectSeqBy(rows, keep)), 0, req)

fetch_wb_data_body(variable, country, start_year, end_year, fz, response) ==
    LET indicator_code == get_indicator_code(variable)
        country_code == get_country_code(country, fz)
    IN IF country_code.kind = "raise" THEN country_code
       ELSE IF country_code.value = "" THEN Return(<<>>, 1, <<>>)
       ELSE LET req == [url |-> <<"country", country_code.value, "indicator", indicator_code>>,
                        date |-> <<start_year, end_year>>, per_page |-> PerPageSeries]
                data == HttpGetJson(req, response)
            IN IF data.kind = "raise" THEN data
               ELSE LET len == PyLen(data.value)
                    IN IF len.kind = "raise" THEN Raise(len.exc, 0, <<req>>)
                       ELSE IF len.value = 2
                       THEN LET records == PyIndex1(data.value)
                            IN IF records.kind = "raise" THEN Raise(records.exc, 0, <<req>>)
                               ELSE SeriesFrame(records.value, <<req>>)
                       ELSE Return(<<>>, 1, <<req>>)

(***************************************************************************)
(* fetch_wb_data_geo (lines 61-82), without its cache.                     *)
(***************************************************************************)
\* Lines 74-79: the country column keeps the record's nested object.
GeoFrame(records, req) ==
    LET df == DataFrameOf(records)
    IN IF df.kind = "raise" THEN Raise(df.exc, 0, req)
       ELSE IF ~({"countryiso3code", "country", "value"} \subseteq df.value.cols)
       THEN Raise("KeyError", 0, req)
       ELSE LET recs == df.value.recs
                n == Len(recs)
                codes == [i \in 1..n |-> Field(recs[i], "countryiso3code")]
                names == [i \in 1..n |-> Field(recs[i], "country")]
                vals == [i \in 1..n |-> ToNumeric(Field(recs[i], "value"))]
                rows == [i \in 1..n |-> [Code |-> codes[i].v, Country |-> names[i].v,
                                         Value |-> vals[i].v]]
                keep == {i \in 1..n : codes[i].ok /\ names[i].ok /\ vals[i].ok}
            IN Return(SelectSeqBy(rows, keep), 0, req)

fetch_wb_data_geo_body(variable, year, response) ==
    LET indicator_code == get_indicator_code(variable)
        req == [url |-> <<"country", "all", "indicator", indicator_code>>,
                date |-> <<year>>, per_page |-> PerPageAll]
        data == HttpGetJson(req, response)
    IN IF data.kind = "raise" THEN data
       ELSE LET len == PyLen(data.value)
            IN IF len.kind = "raise" THEN Raise(len.exc, 0, <<req>>)
               ELSE IF len.value = 2
               THEN LET records == PyIndex1(data.value)
                    IN IF records.kind = "raise" THEN Raise(records.exc, 0, <<req>>)
                       ELSE GeoFrame(records.value, <<req>>)
               ELSE Return(<<>>, 1, <<req>>)

(***************************************************************************)
(* get_country_list (lines 86-95), without its cache.                      *)
(***************************************************************************)
\* Line 91: [country['name'] for country in data[1]].  Iterating a string
\* yields its characters, iterating a dict its keys: both are strings, and
\* indexing a string with 'name' raises.
NameList(records, req) ==
    CASE records.t = "arr" ->
           IF \E i \in 1..Len(records.a) : records.a[i].t # "obj"
           THEN Raise("TypeError", 0, req)
           ELSE IF \E i \in 1..Len(records.a) : "name" \notin DOMAIN records.a[i].o
           THEN Raise("KeyError", 0, req)
           ELSE Return([i \in 1..Len(records.a) |-> records.a[i].o.name], 0, req)
      [] records.t = "str" ->
           IF StrLen(records.s) = 0 THEN Return(<<>>, 0, req) ELSE Raise("TypeError", 0, req)
      [] records.t = "obj" ->
           IF DOMAIN records.o = {} THEN Return(<<>>, 0, req) ELSE Raise("TypeError", 0, req)
      [] OTHER -> Raise("TypeError", 0, req)

get_country_list_body(response) ==
    LET req == [url |-> <<"country">>, date |-> <<>>, per_page |-> PerPageAll]
        data == HttpGetJson(req, response)
    IN IF data.kind = "raise" THEN data
       ELSE LET len == PyLen(data.value)
            IN IF len.kind = "raise" THEN Raise(len.exc, 0, <<req>>)
               ELSE IF len.value = 2
               THEN LET records == PyIndex1(data.value)
                    IN IF records.kind = "raise" THEN Raise(records.exc, 0, <<req>>)
                       ELSE NameList(records.value, <<req>>)
               ELSE Return(<<>>, 1, <<req>>)

(***************************************************************************)
(* fetch_exchange_rates (lines 99-111), without its cache.                 *)
(***************************************************************************)
\* 'rates' in data: key test on a dict, element test on a list, substring
\* test on a string (none of the model's strings contains "rates").
HasRates(data) ==
    CASE data.t = "obj" -> Return("rates" \in DOMAIN data.o, 0, <<>>)
      [] data.t = "arr" -> Return(\E i \in 1..Len(data.a) : data.a[i] = JStr("rates"), 0, <<>>)
      [] data.t = "str" -> Return(FALSE, 0, <<>>)
      [] OTHER -> Raise("TypeError", 0, <<>>)

\* Lines 106-108: data['rates'] and list(rates.items()) as a two-column frame.
RatesFrame(data, req) ==
    IF data.t # "obj" THEN Raise("TypeError", 0, req)
    ELSE LET rates == data.o.rates
         IN IF rates.t # "obj" THEN Raise("AttributeError", 0, req)
            ELSE LET keys == SetToSeq(DOMAIN rates.o)
                 IN Return([i \in 1..Len(keys) |->
                              [Currency |-> keys[i], Rate |-> rates.o[keys[i]]]], 0, req)

fetch_exchange_rates_body(base_currency, response) ==
    LET req == [url |-> <<"latest", base_currency>>, date |-> <<>>, per_page |-> 0]
        data == HttpGetJson(req, response)
    IN IF data.kind = "raise" THEN data
       ELSE LET has == HasRates(data.value)
            IN IF has.kind = "raise" THEN Raise(has.exc, 0, <<req>>)
               ELSE IF has.value THEN RatesFrame(data.value, <<req>>)
               ELSE Return(<<>>, 1, <<req>>)

(***************************************************************************)
(* @st.cache (lines 29, 60, 85, 98): process-wide memoisation, keyed by    *)
(* the call's arguments.  A stored entry carries, as a history annotation, *)
(* who stored it ("by"); the code stores the value only.                   *)
(***************************************************************************)
\* A key that leaves the year range out.
CacheKeyWithoutYears(args) == IF Len(args) > 3 THEN SubSeq(args, 1, 3) ELSE args

CacheKey(args) == args

\* What the decorated call gives: the stored value, without running the body
\* (no request, no st.error), or the body's outcome.
st_cache_call(cache, args, body) ==
    IF CacheKey(args) \in DOMAIN cache
    THEN Return(cache[CacheKey(args)].value, 0, <<>>)
    ELSE body

\* The store after the call: a returned value is kept, an exception is not.
st_cache_store(cache, args, body, by) ==
    IF CacheKey(args) \in DOMAIN cache \/ body.kind # "return" THEN cache
    ELSE [k \in DOMAIN cache \cup {CacheKey(args)} |->
            IF k = CacheKey(args) THEN [value |-> body.value, by |-> by] ELSE cache[k]]

\* The record of a fetcher call, kept for the properties: seen tells whether
\* a call with these arguments had returned before, fresh is what the body
\* gives on this call's response.
FetchRecord(fn, args, by, cache, first, body) ==
    [fn |-> fn, args |-> args, by |-> by,
     hit |-> CacheKey(args) \in DOMAIN cache,
     owner |-> IF CacheKey(args) \in DOMAIN cache THEN cache[CacheKey(args)].by ELSE by,
     seen |-> args \in DOMAIN first,
     result |-> st_cache_call(cache, args, body),
     fresh |-> body]

NoFetch == [fn |-> "none"]

\* History: the value the first returning call with these arguments gave.
FirstReturn(first, args, result) ==
    IF args \in DOMAIN first \/ result.kind # "return" THEN first
    ELSE [k \in DOMAIN first \cup {args} |-> IF k = args THEN result.value ELSE first[k]]

(***************************************************************************)
(* State.  Process-wide: the environment's key, the st.cache_resource      *)
(* store of load_copilot, the Copilot instances constructed, the st.cache  *)
(* store of the fetchers.  Per browser session: st.session_state           *)
(* (messages, chat_copilot), the key text input, the running script's      *)
(* position and globals, and what the last run put on the page.            *)
(* History: submitted, first_return, last_fetch.                           *)
(***************************************************************************)
VARIABLES env_key, load_copilot_cache, instances, st_cache,
          key_input, messages, chat_copilot, pc, openai_api_key, asked, screen,
          submitted, first_return, last_fetch, input

vars == <<env_key, load_copilot_cache, instances, st_cache,
          key_input, messages, chat_copilot, pc, openai_api_key, asked, screen,
          submitted, first_return, last_fetch, input>>

chatVars == <<load_copilot_cache, instances, key_input, messages, chat_copilot, pc,
              openai_api_key, asked, screen, submitted>>

Sessions == {"s1", "s2"}

\* Most texts submitted to the chat, all sessions together.
MaxSubmits == 2

(***************************************************************************)
(* Chat values.  A text is a sequence of fragments; "" is an empty one.    *)
(***************************************************************************)
Msg(role, content) == [role |-> role, content |-> content]

\* Lines 140-142.
InitialMessages == <<Msg("assistant", <<"I am Macroeconomics Copilot">>)>>

\* st.chat_input: None, or the submitted (non-empty) text.
NonePrompt == [some |-> FALSE, text |-> <<>>]

SomePrompt(text) == [some |-> TRUE, text |-> text]

Prompts == {<<"q1">>, <<"q2">>}

\* What Copilot.ask hands back as answer: a string, or a generator of chunks
\* whose delta.content may be empty.
Complete(text) == [tag |-> "str", text |-> text, chunks |-> <<>>]

Streaming(chunks) == [tag |-> "stream", text |-> <<>>, chunks |-> chunks]

EngineAnswers == {Complete(<<"a", "b">>), Streaming(<<"a", "", "b">>)}

NonEmptyChunk(content) == content # ""

\* Lines 168-177: the string itself, or what st.write_stream(generate())
\* returns: the non-empty contents, joined.
AnswerContent(answer) ==
    IF answer.tag = "str" THEN answer.text
    ELSE SelectSeq(answer.chunks, NonEmptyChunk)

NoAsk == [called |-> FALSE, prompt |-> NonePrompt, messages |-> <<>>, transcript |-> <<>>,
          engine |-> 0]

Front(q) == SubSeq(q, 1, Len(q) - 1)

Last(q) == q[Len(q)]

UserTexts(q) == SelectSeq(q, LAMBDA m : m.role = "user")

RECURSIVE SubmitCount(_, _)
\* The user messages in the transcripts of the sessions in S.
SubmitCount(msgs, S) ==
    IF S = {} THEN 0
    ELSE LET s == CHOOSE t \in S : TRUE
         IN Len(UserTexts(msgs[s])) + SubmitCount(msgs, S \ {s})

(***************************************************************************)
(* The page.                                                               *)
(***************************************************************************)
BlankView == [view |-> "none", chart |-> FALSE, warning |-> FALSE, errors |-> 0,
              exc |-> "", rows |-> 0]

BlankScreen == [info |-> FALSE, tabs |-> FALSE, tab2 |-> FALSE, view |-> "none",
                chart |-> FALSE, warning |-> FALSE, errors |-> 0, exc |-> "", rows |-> 0]

Page(scr, v) ==
    [scr EXCEPT !.tab2 = TRUE, !.view = v.view, !.chart = v.chart, !.warning = v.warning,
                !.errors = v.errors, !.exc = v.exc, !.rows = v.rows]

(***************************************************************************)
(* Tab 2, Economic Data Visualization (lines 182-248).  st is the store    *)
(* and the history the view starts from; a view gives the store after it   *)
(* and what it rendered.  args[1] names the decorated function.            *)
(***************************************************************************)
Fetched(args, by, st, body) ==
    [cache |-> st_cache_store(st.cache, args, body, by),
     first |-> FirstReturn(st.first, args, st_cache_call(st.cache, args, body)),
     last |-> FetchRecord(args[1], args, by, st.cache, st.first, body),
     result |-> st_cache_call(st.cache, args, body)]

\* The if / else that ends each view (lines 203-208, 216-228, 234-248).
Render(view, n, errs) ==
    [view |-> view, chart |-> n > 0, warning |-> ~(n > 0), errors |-> errs, exc |-> "",
     rows |-> n]

\* An uncaught exception ends the script run: the page shows the traceback.
Crashed(view, exc, errs) ==
    [view |-> view, chart |-> FALSE, warning |-> FALSE, errors |-> errs, exc |-> exc,
     rows |-> 0]

After(c, view) == [cache |-> c.cache, first |-> c.first, last |-> c.last, view |-> view]

\* st.selectbox over the fetched names: None when there is none to choose.
SelectCountry(countries, pick) ==
    IF countries = <<>> THEN JNull
    ELSE countries[IF pick <= Len(countries) THEN pick ELSE 1]

\* Lines 192-208.
TimeSeriesView(s, t2, st) ==
    LET c1 == Fetched(<<"get_country_list">>, s, st, get_country_list_body(t2.list_resp))
    IN IF c1.result.kind = "raise" THEN After(c1, Crashed("ts", c1.result.exc, 0))
       ELSE LET country == SelectCountry(c1.result.value, t2.pick)
                c2 == Fetched(<<"fetch_wb_data", t2.variable, country, t2.years[1], t2.years[2]>>,
                              s, [cache |-> c1.cache, first |-> c1.first],
                              fetch_wb_data_body(t2.variable, country, t2.years[1],
                                                 t2.years[2], t2.fz, t2.data_resp))
                errs == c1.result.msgs + c2.result.msgs
            IN IF c2.result.kind = "raise" THEN After(c2, Crashed("ts", c2.result.exc, errs))
               ELSE After(c2, Render("ts", Len(c2.result.value), errs))

\* Lines 210-228.
GeoView(s, t2, st) ==
    LET c == Fetched(<<"fetch_wb_data_geo", t2.variable, t2.year>>, s, st,
                     fetch_wb_data_geo_body(t2.variable, t2.year, t2.data_resp))
    IN IF c.result.kind = "raise" THEN After(c, Crashed("geo", c.result.exc, 0))
       ELSE After(c, Render("geo", Len(c.result.value), c.result.msgs))

\* Line 241.
DefaultCurrencies == {"EUR", "GBP", "JPY", "AUD", "CAD", "CHF", "CNY"}

\* Lines 229-248.  st.multiselect raises when a default is not an option;
\* the bar chart shows the selected currencies' rows.
ExchangeView(s, t2, st) ==
    LET c == Fetched(<<"fetch_exchange_rates">>, s, st,
                     fetch_exchange_rates_body("USD", t2.data_resp))
    IN IF c.result.kind = "raise" THEN After(c, Crashed("fx", c.result.exc, 0))
       ELSE LET df == c.result.value
                options == {df[i].Currency : i \in 1..Len(df)}
                filtered == {i \in 1..Len(df) : df[i].Currency \in t2.currencies}
            IN IF df = <<>> THEN After(c, Render("fx", 0, c.result.msgs))
               ELSE IF ~(DefaultCurrencies \subseteq options)
               THEN After(c, Crashed("fx", "StreamlitAPIException", c.result.msgs))
               ELSE After(c, [Render("fx", Len(df), c.result.msgs)
                                EXCEPT !.rows = Cardinality(filtered)])

Tab2(s, t2, st) ==
    IF t2.variable # "Exchange Rates"
    THEN IF t2.viz_type = "Time Series Plot" THEN TimeSeriesView(s, t2, st)
         ELSE GeoView(s, t2, st)
    ELSE ExchangeView(s, t2, st)

(***************************************************************************)
(* The script run (lines 121-248), in the steps the ask call splits it in. *)
(***************************************************************************)
\* Lines 126-129: the environment's key, else the text input's.
ApiKey(typed) == IF env_key # "" THEN env_key ELSE typed

\* A gate that lets every run through.
HasCredentialAlways(key) == TRUE

\* Line 131.
HasCredential(key) == key # ""

\* Lines 144-146: st.cache_resource keeps one Copilot for the process; the
\* function takes no argument, so the key it closes over is no part of the
\* cache key.  Gives the instance's index in instances.
load_copilot == IF load_copilot_cache # 0 THEN load_copilot_cache ELSE Len(instances) + 1

\* The rest of the run after tab 1: tab 2, then the script ends.
FinishRun(s, t2) ==
    \E out \in {Tab2(s, t2, [cache |-> st_cache, first |-> first_return])} :
       /\ st_cache' = out.cache
       /\ first_return' = out.first
       /\ last_fetch' = out.last
       /\ screen' = [screen EXCEPT ![s] = Page([BlankScreen EXCEPT !.tabs = TRUE], out.view)]
       /\ pc' = [pc EXCEPT ![s] = "idle"]

\* A rerun of session s's script: typed is the key text input's value,
\* chat_in what st.chat_input returns, t2 the widgets and responses of tab 2.
BeginRun(s, typed, chat_in, t2) ==
    /\ pc[s] = "idle"
    /\ key_input' = IF env_key # "" THEN key_input ELSE [key_input EXCEPT ![s] = typed]
    /\ openai_api_key' = [openai_api_key EXCEPT ![s] = ApiKey(typed)]
    /\ UNCHANGED <<env_key, input>>
    /\ IF ~HasCredential(ApiKey(typed))
       THEN /\ screen' = [screen EXCEPT ![s] = [BlankScreen EXCEPT !.info = TRUE]]
            /\ UNCHANGED <<load_copilot_cache, instances, st_cache, messages, chat_copilot,
                           pc, asked, submitted, first_return, last_fetch>>
       ELSE LET msgs0 == IF messages[s] = <<>> THEN InitialMessages ELSE messages[s]
                engine == IF chat_copilot[s] # 0 THEN chat_copilot[s] ELSE load_copilot
                msgs1 == IF chat_in.some /\ chat_in.text # <<>>
                         THEN Append(msgs0, Msg("user", chat_in.text)) ELSE msgs0
            IN /\ chat_in.some => SubmitCount(messages, Sessions) < MaxSubmits
               /\ chat_copilot' = [chat_copilot EXCEPT ![s] = engine]
               /\ load_copilot_cache' = IF chat_copilot[s] # 0 THEN load_copilot_cache ELSE engine
               /\ instances' = IF engine > Len(instances)
                               THEN Append(instances, [key |-> ApiKey(typed), by |-> s])
                               ELSE instances
               /\ messages' = [messages EXCEPT ![s] = msgs1]
               /\ submitted' = IF chat_in.some
                               THEN [submitted EXCEPT ![s] = Append(@, chat_in.text)]
                               ELSE submitted
               /\ IF Last(msgs1).role # "assistant"
                  THEN /\ asked' = [asked EXCEPT ![s] =
                                      [called |-> TRUE, prompt |-> chat_in,
                                       messages |-> Front(msgs1), transcript |-> msgs1,
                                       engine |-> engine]]
                       /\ pc' = [pc EXCEPT ![s] = "ask"]
                       /\ screen' = [screen EXCEPT ![s] = [BlankScreen EXCEPT !.tabs = TRUE]]
                       /\ UNCHANGED <<st_cache, first_return, last_fetch>>
                  ELSE /\ asked' = [asked EXCEPT ![s] = NoAsk]
                       /\ FinishRun(s, t2)

\* Lines 164-179: the engine answers; the answer is rendered and appended,
\* and the run goes on to tab 2.
AskRespond(s, answer, t2) ==
    /\ pc[s] = "ask"
    /\ messages' = [messages EXCEPT ![s] = Append(@, Msg("assistant", AnswerContent(answer)))]
    /\ asked' = [asked EXCEPT ![s] = NoAsk]
    /\ FinishRun(s, t2)
    /\ UNCHANGED <<env_key, load_copilot_cache, instances, key_input, chat_copilot,
                   openai_api_key, submitted, input>>

\* The run ends inside the ask call: the engine raises, or the user's next
\* interaction makes Streamlit stop the script before line 179.
AskAbort(s) ==
    /\ pc[s] = "ask"
    /\ pc' = [pc EXCEPT ![s] = "idle"]
    /\ asked' = [asked EXCEPT ![s] = NoAsk]
    /\ screen' = [screen EXCEPT ![s] = [@ EXCEPT !.exc = "ask"]]
    /\ UNCHANGED <<env_key, load_copilot_cache, instances, st_cache, key_input, messages,
                   chat_copilot, openai_api_key, submitted, first_return, last_fetch, input>>

(***************************************************************************)
(* Responses of the two APIs.                                              *)
(***************************************************************************)
Meta == JObj([page |-> JNum(1), total |-> JNum(2)])

\* What the statistics API answers when it has no data, and on an error.
MetaNoData == JObj([page |-> JNum(0), total |-> JNum(0)])

ErrorBody == JArr(<<JObj([message |-> JStr("Invalid value")])>>)

Obs(date, value) == JObj([date |-> date, value |-> value])

SeriesA == JArr(<<Meta, JArr(<<Obs(JStr("2021"), JNum(7)), Obs(JStr("2020"), JNum(5))>>)>>)

SeriesB == JArr(<<Meta, JArr(<<Obs(JStr("2020"), JNull), Obs(JStr("2019"), JStr("10"))>>)>>)

NoData == JArr(<<MetaNoData, JNull>>)

GeoObs(code, name, value) ==
    JObj([countryiso3code |-> code, country |-> name, value |-> value])

CountryOf(name) == JObj([id |-> JStr("id"), value |-> JStr(name)])

GeoA == JArr(<<Meta, JArr(<<GeoObs(JStr("DEU"), CountryOf("Germany"), JNum(5)),
                            GeoObs(JStr("FRA"), CountryOf("France"), JNull)>>)>>)

Named(name) == JObj([name |-> JStr(name)])

CountriesA == JArr(<<Meta, JArr(<<Named("Germany"), Named("Zzzz")>>)>>)

RatesAll == JObj([rates |-> JObj([EUR |-> JNum(1), GBP |-> JNum(1), JPY |-> JNum(150),
                                  AUD |-> JNum(2), CAD |-> JNum(1), CHF |-> JNum(1),
                                  CNY |-> JNum(7), USD |-> JNum(1)])])

RatesFew == JObj([rates |-> JObj([USD |-> JNum(1), EUR |-> JNum(1)])])

RatesNone == JObj([rates |-> JObj(<<>>)])

NoRates == JObj([success |-> JStr("no")])

(***************************************************************************)
(* The application: browser sessions rerunning the script.  The user types *)
(* a key, submits chat texts, and leaves tab 2 at its defaults (lines 187, *)
(* 190, 195, 198), where the APIs answer well-formed data.                 *)
(***************************************************************************)
SliderFrom == 2010

SliderTo == 2023

SliderMin == 1960

DefaultTab2 ==
    [variable |-> "GDP", viz_type |-> "Time Series Plot", pick |-> 1,
     years |-> <<SliderFrom, SliderTo>>, year |-> SliderTo, fz |-> "LookupError",
     list_resp |-> CountriesA, data_resp |-> SeriesA, currencies |-> DefaultCurrencies]

NoInput == [fn |-> "none"]

InitState ==
    /\ load_copilot_cache = 0
    /\ instances = <<>>
    /\ st_cache = <<>>
    /\ key_input = [s \in Sessions |-> ""]
    /\ messages = [s \in Sessions |-> <<>>]
    /\ chat_copilot = [s \in Sessions |-> 0]
    /\ pc = [s \in Sessions |-> "idle"]
    /\ openai_api_key = [s \in Sessions |-> ""]
    /\ asked = [s \in Sessions |-> NoAsk]
    /\ screen = [s \in Sessions |-> BlankScreen]
    /\ submitted = [s \in Sessions |-> <<>>]
    /\ first_return = <<>>
    /\ last_fetch = NoFetch

Init ==
    /\ env_key \in {"", "k0"}
    /\ input = NoInput
    /\ InitState

KeyTexts == {"", "k1", "k2"}

ChatInputs == {NonePrompt} \cup {SomePrompt(text) : text \in Prompts}

Run(s) == \E typed \in KeyTexts, chat_in \in ChatInputs : BeginRun(s, typed, chat_in, DefaultTab2)

Respond(s) == \E answer \in EngineAnswers : AskRespond(s, answer, DefaultTab2)

Abort(s) == AskAbort(s)

Next == \E s \in Sessions : Run(s) \/ Respond(s) \/ Abort(s)

Spec == Init /\ [][Next]_vars

(***************************************************************************)
(* Chat session properties, under Spec.                                    *)
(***************************************************************************)
\* C1: every submitted text is in the transcript exactly once, in submission
\* order and appended before the engine is called; the transcript is the
\* greeting followed by user/assistant pairs (the last pair's answer may
\* still be pending), nothing duplicated and nothing dropped.
C1_TranscriptIsGreetingThenPairs ==
    \A s \in Sessions :
        messages[s] # <<>> =>
            LET m == messages[s]
                users == UserTexts(m)
            IN /\ m[1] = InitialMessages[1]
               /\ Len(users) = Len(submitted[s])
               /\ \A i \in 1..Len(users) : users[i].content = submitted[s][i]
               /\ \A i \in 2..Len(m) : m[i].role = (IF i % 2 = 0 THEN "user" ELSE "assistant")
               /\ pc[s] = "ask" => asked[s].transcript = m /\ Last(m).role = "user"

\* C2: the engine a session uses was built with the key that session
\* provides, and a session constructs no second instance.
C2_EngineBuiltWithSessionKey ==
    \A s \in Sessions :
        /\ Cardinality({i \in 1..Len(instances) : instances[i].by = s}) <= 1
        /\ (chat_copilot[s] # 0 /\ HasCredential(openai_api_key[s])) =>
               instances[chat_copilot[s]].key = openai_api_key[s]

\* C7: a session reads only what it wrote itself: its engine is one it
\* constructed, a fetch served from the store was stored by that session,
\* and the transcript handed to the engine is its own.
C7_SessionsAreIsolated ==
    /\ \A s \in Sessions :
           /\ chat_copilot[s] # 0 => instances[chat_copilot[s]].by = s
           /\ asked[s].called => asked[s].transcript = messages[s]
    /\ (last_fetch.fn # "none" /\ last_fetch.hit) => last_fetch.owner = last_fetch.by

\* C10: whenever the engine is being asked, the prompt is the content of the
\* transcript's last message, that message is a user message, the prior
\* messages are the transcript without it; no call is made otherwise.
C10_AskGetsLastUserMessage ==
    \A s \in Sessions :
        /\ pc[s] = "ask" =>
               /\ asked[s].called
               /\ Last(messages[s]).role = "user"
               /\ asked[s].prompt = SomePrompt(Last(messages[s]).content)
               /\ asked[s].messages = Front(messages[s])
        /\ pc[s] # "ask" => ~asked[s].called

(***************************************************************************)
(* The visualisation tab: one session with no chat text, every widget of   *)
(* tab 2 in use, and the APIs answering data, no data, or an error body.   *)
(***************************************************************************)
VizSessions == {"s1"}

VizKeyTexts == {"", "k1"}

\* The country list's response with the series' response: one of the two
\* is well-formed.
VizResponses ==
    {<<CountriesA, SeriesA>>, <<CountriesA, NoData>>, <<CountriesA, ErrorBody>>,
     <<NoData, SeriesA>>, <<ErrorBody, SeriesA>>}

VizTimeSeries ==
    {[variable |-> "GDP", viz_type |-> "Time Series Plot", pick |-> pick,
      years |-> <<SliderFrom, SliderTo>>, year |-> SliderTo, fz |-> fz,
      list_resp |-> r[1], data_resp |-> r[2], currencies |-> DefaultCurrencies] :
        pick \in 1..2, fz \in {"empty", "LookupError"}, r \in VizResponses}

VizGeo ==
    {[variable |-> "GDP", viz_type |-> "Geographical Visualization", pick |-> 1,
      years |-> <<SliderFrom, SliderTo>>, year |-> year, fz |-> "empty",
      list_resp |-> CountriesA, data_resp |-> dr, currencies |-> DefaultCurrencies] :
        year \in {SliderTo}, dr \in {GeoA, NoData, ErrorBody}}

VizExchange ==
    {[variable |-> "Exchange Rates", viz_type |-> "Time Series Plot", pick |-> 1,
      years |-> <<SliderFrom, SliderTo>>, year |-> SliderTo, fz |-> "empty",
      list_resp |-> CountriesA, data_resp |-> dr, currencies |-> cs] :
        dr \in {RatesAll, RatesFew, NoRates}, cs \in {DefaultCurrencies, {"EUR"}}}

VizInputs == VizTimeSeries \cup VizGeo \cup VizExchange

VizRun(s) == \E typed \in VizKeyTexts, t2 \in VizInputs : BeginRun(s, typed, NonePrompt, t2)

NextViz == \E s \in VizSessions : VizRun(s)

SpecViz == Init /\ [][NextViz]_vars

\* C3 (as claimed): a run without a credential still renders the
\* Economic Data Visualization tab.
C3_VizTabRenderedWithoutKey ==
    \A s \in Sessions : screen[s].info => screen[s].tab2

\* C3 (amended): a run without a credential renders neither tab: the page
\* holds the request for a key and nothing else, no view, chart or warning.
C3_NoKeyBlocksBothTabs ==
    \A s \in Sessions :
        (openai_api_key[s] = "" /\ screen[s] # BlankScreen) =>
            screen[s] = [BlankScreen EXCEPT !.info = TRUE]

\* A session that has charted data runs again with the key removed.
C3_Witness ==
    \E s \in Sessions :
        /\ screen[s].info /\ openai_api_key[s] = ""
        /\ chat_copilot[s] # 0
        /\ last_fetch.fn # "none"

\* C9: a run that reaches a view renders exactly one of chart and warning,
\* the chart exactly when the view's fetch result is non-empty.
C9_ChartXorWarning ==
    \A s \in VizSessions :
        screen[s].tab2 =>
            /\ screen[s].chart # screen[s].warning
            /\ screen[s].chart <=>
                   (last_fetch.result.kind = "return" /\ last_fetch.result.value # <<>>)

(***************************************************************************)
(* The fetchers called directly, any number of times, in any order.        *)
(***************************************************************************)
Store == [cache |-> st_cache, first |-> first_return]

Called(c) ==
    /\ st_cache' = c.cache
    /\ first_return' = c.first
    /\ last_fetch' = c.last
    /\ UNCHANGED <<env_key, chatVars, input>>

CallFetchWb(variable, country, start_year, end_year, fz, response) ==
    \E c \in {Fetched(<<"fetch_wb_data", variable, country, start_year, end_year>>, "caller",
                      Store, fetch_wb_data_body(variable, country, start_year, end_year,
                                                fz, response))} : Called(c)

CallFetchGeo(variable, year, response) ==
    \E c \in {Fetched(<<"fetch_wb_data_geo", variable, year>>, "caller", Store,
                      fetch_wb_data_geo_body(variable, year, response))} : Called(c)

CallCountryList(response) ==
    \E c \in {Fetched(<<"get_country_list">>, "caller", Store,
                      get_country_list_body(response))} : Called(c)

CallExchangeRates(base_currency, response) ==
    \E c \in {Fetched(<<"fetch_exchange_rates", base_currency>>, "caller", Store,
                      fetch_exchange_rates_body(base_currency, response))} : Called(c)

\* Argument tuples that differ from the first in one place each.
FetchArgs ==
    {<<"GDP", JStr("Germany"), SliderFrom, SliderTo>>,
     <<"GDP", JStr("Germany"), SliderMin, SliderTo>>,
     <<"Inflation", JStr("Germany"), SliderFrom, SliderTo>>,
     <<"GDP", JStr("Zzzz"), SliderFrom, SliderTo>>}

FetchWb ==
    \E a \in FetchArgs, fz \in {"empty", "LookupError"}, response \in {SeriesA, SeriesB, NoData} :
        CallFetchWb(a[1], a[2], a[3], a[4], fz, response)

FetchGeo == \E response \in {GeoA, NoData} : CallFetchGeo("GDP", SliderTo, response)

FetchCountryList == \E response \in {CountriesA, NoData} : CallCountryList(response)

FetchExchangeRates == \E response \in {RatesAll, NoRates} : CallExchangeRates("USD", response)

NextFetch == FetchWb \/ FetchGeo \/ FetchCountryList \/ FetchExchangeRates

InitFetch ==
    /\ env_key = ""
    /\ input = NoInput
    /\ InitState

SpecFetch == InitFetch /\ [][NextFetch]_vars

\* C6: a call of the time-series fetcher whose argument tuple has returned
\* before issues no request and returns the rows the first call returned;
\* a call whose tuple has not returned before gets what the body computes
\* from its own response, never another tuple's rows.
C6_RepeatedCallServedFromCache ==
    last_fetch.fn = "fetch_wb_data" =>
        /\ last_fetch.seen =>
               /\ last_fetch.result.kind = "return"
               /\ last_fetch.result.req = <<>>
               /\ last_fetch.result.value = first_return[last_fetch.args]
        /\ ~last_fetch.seen => last_fetch.result = last_fetch.fresh

\* A repeated call, after calls with other arguments and other fetchers,
\* whose own response would have given other rows than the first call's.
C6_Witness ==
    /\ last_fetch.fn = "fetch_wb_data"
    /\ last_fetch.seen
    /\ last_fetch.fresh.kind = "return"
    /\ last_fetch.fresh.value # last_fetch.result.value
    /\ last_fetch.result.value # <<>>
    /\ \E k \in DOMAIN st_cache : k[1] = "fetch_wb_data" /\ k # last_fetch.args
    /\ \E k \in DOMAIN st_cache : k[1] # "fetch_wb_data"

(***************************************************************************)
(* Each fetcher applied once to one input, drawn from the shapes a         *)
(* response can have.                                                      *)
(***************************************************************************)
\* Most records in a response's record list.
MaxRecords == 2

SeqsUpTo(S, n) == UNION {[1..k -> S] : k \in 0..n}

\* Bodies that are no two-element array.
NotTwoElements ==
    {JNull, JNum(2), JStr("ok"), JStr("r"), JObj([message |-> JStr("no")]),
     JObj([a |-> JNum(1), b |-> JNum(2)]), JArr(<<>>), ErrorBody, JArr(<<Meta, JArr(<<>>), JNull>>)}

\* Second elements that are no list of records.
NotRecords ==
    {JNull, JNum(0), JStr("ok"), JObj([message |-> JStr("no")]), JArr(<<JNum(1), JNum(2)>>)}

TransportFailures == {ConnError, NotJson}

Malformed == NotTwoElements \cup {JArr(<<MetaNoData, x>>) : x \in NotRecords}

Observations ==
    {Obs(d, v) : d \in {JStr("2019"), JStr("2020"), JStr("2020Q1"), JNull},
                 v \in {JNum(5), JStr("10"), JStr("n/a"), JNull}}
    \cup {JObj([date |-> JStr("2021")])}

SeriesResponses ==
    Malformed \cup TransportFailures
    \cup {JArr(<<Meta, JArr(q)>>) : q \in SeqsUpTo(Observations, MaxRecords)}

GeoObservations ==
    {GeoObs(c, CountryOf("Germany"), v) : c \in {JStr("DEU"), JStr(""), JNull},
                                          v \in {JNum(5), JStr("n/a"), JNull}}
    \cup {JObj([countryiso3code |-> JStr("FRA"), value |-> JNum(7)])}

GeoResponses ==
    Malformed \cup TransportFailures
    \cup {JArr(<<Meta, JArr(q)>>) : q \in SeqsUpTo(GeoObservations, MaxRecords)}

CountryRecords == {Named("Germany"), Named("Zzzz"), JObj([id |-> JStr("DEU")])}

CountryResponses ==
    Malformed \cup TransportFailures
    \cup {JArr(<<Meta, JArr(q)>>) : q \in SeqsUpTo(CountryRecords, MaxRecords)}

RatesResponses ==
    {RatesAll, RatesFew, RatesNone, NoRates, JObj([rates |-> JNull]),
     JArr(<<JStr("rates")>>), JNull, JNum(2), JStr("ok")} \cup TransportFailures

ShapeInputs ==
    {[fn |-> "fetch_wb_data", variable |-> v, country |-> c, year |-> SliderTo, fz |-> fz,
      response |-> r] :
        v \in {"GDP", "Exchange Rates"}, c \in {JStr("Germany"), JStr("Zzzz")},
        fz \in {"empty"}, r \in SeriesResponses}
    \cup {[fn |-> "fetch_wb_data_geo", variable |-> "GDP", country |-> JNull, year |-> SliderTo,
           fz |-> "empty", response |-> r] : r \in GeoResponses}
    \cup {[fn |-> "get_country_list", variable |-> "", country |-> JNull, year |-> SliderTo,
           fz |-> "empty", response |-> r] : r \in CountryResponses}
    \cup {[fn |-> "fetch_exchange_rates", variable |-> "USD", country |-> JNull,
           year |-> SliderTo, fz |-> "empty", response |-> r] : r \in RatesResponses}

InitShape ==
    /\ env_key = ""
    /\ input \in ShapeInputs
    /\ InitState

ApplyFetchWb ==
    /\ input.fn = "fetch_wb_data" /\ last_fetch = NoFetch
    /\ CallFetchWb(input.variable, input.country, SliderFrom, input.year, input.fz,
                   input.response)

ApplyFetchGeo ==
    /\ input.fn = "fetch_wb_data_geo" /\ last_fetch = NoFetch
    /\ CallFetchGeo(input.variable, input.year, input.response)

ApplyCountryList ==
    /\ input.fn = "get_country_list" /\ last_fetch = NoFetch
    /\ CallCountryList(input.response)

ApplyExchangeRates ==
    /\ input.fn = "fetch_exchange_rates" /\ last_fetch = NoFetch
    /\ CallExchangeRates(input.variable, input.response)

NextShape == ApplyFetchWb \/ ApplyFetchGeo \/ ApplyCountryList \/ ApplyExchangeRates

SpecShape == InitShape /\ [][NextShape]_vars

IsRecordList(x) == x.t = "arr" /\ \A i \in 1..Len(x.a) : x.a[i].t = "obj"

\* A decoded body of the shape [metadata, records].
IsTwoElementPayload(r) == r.t = "arr" /\ Len(r.a) = 2 /\ IsRecordList(r.a[2])

IsJson(r) == r.t \notin {"connerr", "notjson"}

\* The call got as far as its request.
Requested == last_fetch.fn # "none" /\ last_fetch.fresh.req # <<>>

EmptyWithMessage(result) ==
    result.kind = "return" /\ result.value = <<>> /\ result.msgs >= 1

\* C4: on a JSON body that is no [metadata, records], each of the three
\* statistics fetchers returns an empty result with an error message; none
\* raises.
C4_MalformedGivesEmptyAndMessage ==
    (/\ last_fetch.fn \in {"fetch_wb_data", "fetch_wb_data_geo", "get_country_list"}
     /\ Requested
     /\ IsJson(input.response)
     /\ ~IsTwoElementPayload(input.response)) => EmptyWithMessage(last_fetch.result)

\* get_country_code gives None: the search came back without a match.
Unresolved(country, fz) ==
    get_country_code(country, fz).kind = "return" /\ get_country_code(country, fz).value = ""

\* C5: with an indicator or a country that resolves to no code, the
\* time-series fetcher returns an empty result with an error message and
\* issues no request.
C5_UnresolvedFailsFast ==
    (/\ last_fetch.fn = "fetch_wb_data"
     /\ \/ get_indicator_code(input.variable) = ""
        \/ Unresolved(input.country, input.fz)) =>
        /\ EmptyWithMessage(last_fetch.result)
        /\ last_fetch.result.req = <<>>

IsNumeric(v) == v.t = "num" \/ (v.t = "str" /\ ParseNum(v.s) >= 0)

\* A record with a date and a numeric value.
ValidObs(o) ==
    /\ "date" \in DOMAIN o /\ o.date.t = "str"
    /\ "value" \in DOMAIN o /\ IsNumeric(o.value)

RowOf(o) ==
    [Date |-> ParseDate(o.date.s),
     Value |-> IF o.value.t = "num" THEN o.value.n ELSE ParseNum(o.value.s)]

\* rows are the valid records of recs, each as (Date, Value), ascending.
ExactlyValidRowsSorted(rows, recs) ==
    LET valid == {i \in 1..Len(recs) : ValidObs(recs[i].o)}
    IN /\ Len(rows) = Cardinality(valid)
       /\ \A i \in valid : \E j \in 1..Len(rows) : rows[j] = RowOf(recs[i].o)
       /\ \A j \in 1..Len(rows) : \E i \in valid : rows[j] = RowOf(recs[i].o)
       /\ \A j \in 1..(Len(rows) - 1) : rows[j].Date <= rows[j + 1].Date

\* C8: on every [metadata, records] body the time-series fetcher returns
\* exactly the records with a date and a numeric value, as (Date, Value)
\* rows in ascending date order.
C8_ValidRowsSortedByDate ==
    (/\ last_fetch.fn = "fetch_wb_data"
     /\ Requested
     /\ IsTwoElementPayload(input.response)) =>
        /\ last_fetch.result.kind = "return"
        /\ ExactlyValidRowsSorted(last_fetch.result.value, input.response.a[2].a)

\* The part of C8 the code does satisfy: whenever the fetcher returns on a
\* [metadata, records] body, the rows are exactly the valid records, sorted.
SeriesRowsRightWhenReturned ==
    (/\ last_fetch.fn = "fetch_wb_data"
     /\ Requested
     /\ IsTwoElementPayload(input.response)
     /\ last_fetch.result.kind = "return") =>
        ExactlyValidRowsSorted(last_fetch.result.value, input.response.a[2].a)

=============================================================================
